---- MODULE Spec2Model ----
(***************************************************************************)
(* Inventory and transactional ledger engine of the POS backend            *)
(* (app/models.py, app/serializers.py, app/views.py).                      *)
(*                                                                         *)
(* Database: `db` is the committed state of the tables.  A request runs   *)
(* inside a transaction: its writes are collected in wr[t] and become     *)
(* part of `db` at commit, or are dropped at rollback.  Row holds         *)
(* (SELECT ... FOR UPDATE, UPDATE) are kept in `lock` until the           *)
(* transaction ends.                                                       *)
(*                                                                         *)
(* Numbers: quantities are fixed-point, counted in ticks of 1/QtyScale    *)
(* base unit (DecimalField(decimal_places=3) in the source); money is     *)
(* counted in whole currency units.                                        *)
(***************************************************************************)
EXTENDS Integers, Sequences, FiniteSets, TLC

\* ---------------------------------------------------------------- bounds
MaxOps == 2          \* requests started in one behaviour
MaxCash == 3         \* cash-ledger rows in one behaviour
QtyScale == 2        \* ticks per base unit
StockCapUnits == 5   \* capacity of a stock column, in base units

Whole(n) == n * QtyScale
StockCap == Whole(StockCapUnits)

Procs == {1, 2}
Shops == {1, 2}

\* ---------------------------------------------------------------- catalog
Products == {1, 2, 3}
ProductShop == <<1, 1, 2>>
Variants == {1}
VariantProduct == <<1>>
NoId == 0
NoSuchProduct == 9

PRow(p) == <<"product", p>>
VRow(v) == <<"variant", v>>
Rows == {PRow(p) : p \in Products} \cup {VRow(v) : v \in Variants}

\* the shop a stocked row belongs to: Product.shop, ProductVariant.product.shop
OwnerShop(row) ==
    IF row[1] = "variant" THEN ProductShop[VariantProduct[row[2]]] ELSE ProductShop[row[2]]

VARIABLES db, pc, req, res, pre, wr, mem, idx, lock, ops

vars == <<db, pc, req, res, pre, wr, mem, idx, lock, ops>>

\* ---------------------------------------------------------------- helpers
Max(a, b) == IF a >= b THEN a ELSE b

\* Decimal // and int(): rounding toward zero
TruncDiv(a, b) == IF a >= 0 THEN a \div b ELSE -((-a) \div b)

\* a Decimal quotient n/d stored in a DecimalField: the nearest value at the
\* column's scale, ties to the even neighbour
RoundHalfEven(n, d) ==
    LET a == IF n >= 0 THEN n ELSE -n
        q == a \div d
        r == a % d
        m == IF 2 * r > d \/ (2 * r = d /\ q % 2 = 1) THEN q + 1 ELSE q
    IN  IF n >= 0 THEN m ELSE -m

\* int(item["quantity"]) of the sale view, on a quantity in ticks
IntTrunc(q) == TruncDiv(q, QtyScale) * QtyScale

RECURSIVE SumSeq(_)
SumSeq(s) == IF s = <<>> THEN 0 ELSE Head(s) + SumSeq(Tail(s))

NoReq == [op |-> "none"]
NoRes == [status |-> "none", kind |-> "none", ref |-> 0, avail |-> 0]
Result(st, k, r, a) == [status |-> st, kind |-> k, ref |-> r, avail |-> a]

EmptyWr == [pw |-> {}, stock |-> [p \in Products |-> 0],
            vw |-> {}, vstock |-> [v \in Variants |-> 0],
            customers |-> {},
            sales |-> <<>>, saleItems |-> <<>>,
            purchases |-> <<>>, purchaseItems |-> <<>>, ledger |-> <<>>]

ZeroMem == [p \in Products |-> 0]

\* commit of a transaction's writes into the committed tables
Apply(d, w) ==
    [d EXCEPT
       !.stock = [p \in Products |-> IF p \in w.pw THEN w.stock[p] ELSE d.stock[p]],
       !.vstock = [v \in Variants |-> IF v \in w.vw THEN w.vstock[v] ELSE d.vstock[v]],
       !.customers = {c \in d.customers :
                        ~\E n \in w.customers : n.shop = c.shop /\ n.phone = c.phone}
                     \cup w.customers,
       !.sales = d.sales \o [i \in 1..Len(w.sales) |->
                     [w.sales[i] EXCEPT !.id = Len(d.sales) + i]],
       !.saleItems = d.saleItems \o [i \in 1..Len(w.saleItems) |->
                     [w.saleItems[i] EXCEPT !.sale = Len(d.sales) + @]],
       !.purchases = d.purchases \o [i \in 1..Len(w.purchases) |->
                     [w.purchases[i] EXCEPT !.id = Len(d.purchases) + i]],
       !.purchaseItems = d.purchaseItems \o [i \in 1..Len(w.purchaseItems) |->
                     [w.purchaseItems[i] EXCEPT !.id = Len(d.purchaseItems) + i,
                                                !.purchase = Len(d.purchases) + @]],
       !.ledger = d.ledger \o [i \in 1..Len(w.ledger) |->
                     [w.ledger[i] EXCEPT !.purchase_item = Len(d.purchaseItems) + @]]]

HeldBy(t) == {r \in Rows : lock[r] = t}
Release(t) == [r \in Rows |-> IF lock[r] = t THEN 0 ELSE lock[r]]

\* ---------------------------------------------------------------- Sale
\* @transaction.atomic on SaleViewSet.create
SaleNotAtomic == FALSE
SaleAtomic == TRUE

\* Sale.save: earned points
EarnedPoints(total) == TruncDiv(total, 100)

\* Sale.save: payment fields
SalePaidAsSent(method, total, paid) == paid
SalePaid(method, total, paid) == IF method # "due" THEN total ELSE paid
SaleDue(method, total, paid) == IF method # "due" THEN 0 ELSE total - paid

\* Sale.save: customer points update
SaleSavePoints(points, redeemed, earned) ==
    (IF redeemed > 0 THEN Max(0, points - redeemed) ELSE points) + earned

\* SaleSerializer.create: customer points update after the sale is stored
SerializerPoints(points, total, redeemed) ==
    IF total > 0
    THEN Max(0, points + TruncDiv(total, 100) - redeemed)
    ELSE points

\* SaleSerializer.create: payment validation
OverpaidNever(paid, total) == FALSE
Overpaid(paid, total) == paid > total
CustomerMissingNever(method, cust) == FALSE
CustomerMissing(method, cust) == method = "due" /\ cust.phone = ""

NoCust == [phone |-> "", name |-> ""]
NoCustKey == <<0, "">>

\* Customer.objects.get_or_create(shop, phone, defaults name) and the name update
FindCustomerAnyShop(cs, shop, phone) == {c \in cs : c.phone = phone}
FindCustomer(cs, shop, phone) == {c \in cs : c.shop = shop /\ c.phone = phone}
GetOrCreateCustomer(cs, shop, cust) ==
    LET found == FindCustomer(cs, shop, cust.phone)
        base == IF found # {}
                THEN CHOOSE c \in found : TRUE
                ELSE [shop |-> shop, phone |-> cust.phone,
                      name |-> IF cust.name # "" THEN cust.name ELSE cust.phone,
                      points |-> 0]
    IN  IF found # {} /\ cust.name # "" /\ base.name # cust.name
        THEN [base EXCEPT !.name = cust.name]
        ELSE base

\* rows the lookup above writes before the payment validation runs
CustomerWrites(cs, shop, cust) ==
    IF cust.phone = "" THEN {}
    ELSE LET c == GetOrCreateCustomer(cs, shop, cust)
         IN  IF c \in cs THEN {} ELSE {c}

\* products named by the request that belong to the caller's shop
SaleProductIds(r) == {r.items[i].product : i \in 1..Len(r.items)}
Wanted(r) == {p \in Products : p \in SaleProductIds(r) /\ ProductShop[p] = r.shop}

\* serializer.is_valid(): every item must name an existing product, and
\* customer_data, when sent, needs a phone and a name (both required fields)
SaleValid(r) ==
    /\ \A i \in 1..Len(r.items) : r.items[i].product \in Products
    /\ r.cust = NoCust \/ (r.cust.phone # "" /\ r.cust.name # "")

\* stock check loop of the view: index of the first failing item, 0 if none
RECURSIVE FirstFailing(_, _, _, _)
FirstFailing(r, m, held, i) ==
    IF i > Len(r.items) THEN 0
    ELSE LET it == r.items[i]
         IN  IF it.product \notin held THEN i
             ELSE IF m[it.product] < IntTrunc(it.qty) THEN i
             ELSE FirstFailing(r, m, held, i + 1)

\* stock deduction loop of the view: p.stock -= int(qty); p.save()
RECURSIVE DeductStock(_, _, _)
DeductStock(items, i, acc) ==
    IF i > Len(items) \/ ~acc.ok THEN acc
    ELSE LET p == items[i].product
             v == acc.m[p] - IntTrunc(items[i].qty)
         IN  IF v > StockCap \/ v < -StockCap
             THEN [acc EXCEPT !.ok = FALSE]
             ELSE DeductStock(items, i + 1, [acc EXCEPT !.m[p] = v])

Idle(t) == pc[t] \in {"idle", "done"}

Finish(t, r) ==
    /\ pc' = [pc EXCEPT ![t] = "done"]
    /\ res' = [res EXCEPT ![t] = r]
    /\ wr' = [wr EXCEPT ![t] = EmptyWr]
    /\ mem' = [mem EXCEPT ![t] = ZeroMem]
    /\ idx' = [idx EXCEPT ![t] = 0]
    /\ lock' = Release(t)

\* SaleViewSet.create: request accepted, serializer.is_valid()
SaleBegin(t, R, others) ==
    /\ Idle(t)
    /\ ops < MaxOps
    /\ \A u \in Procs \ {t} : others \/ Idle(u)
    /\ \E r \in R :
         /\ req' = [req EXCEPT ![t] = r]
         /\ pre' = [pre EXCEPT ![t] = db]
         /\ ops' = ops + 1
         /\ IF SaleValid(r)
            THEN /\ pc' = [pc EXCEPT ![t] = "lock"]
                 /\ res' = [res EXCEPT ![t] = NoRes]
            ELSE /\ pc' = [pc EXCEPT ![t] = "done"]
                 /\ res' = [res EXCEPT ![t] = Result("400", "invalid", 0, 0)]
    /\ UNCHANGED <<db, wr, mem, idx, lock>>

\* a row hold is granted when no other transaction has the row
HoldAlways(t, r) == TRUE
HoldFree(t, r) == lock[r] \in {0, t}

\* the row a locking read takes next: the one query over the primary key
\* reaches the wanted rows in ascending id order, whatever the order of the
\* items in the request
RECURSIVE FirstListed(_, _)
FirstListed(items, todo) ==
    IF Head(items).product \in todo THEN Head(items).product
    ELSE FirstListed(Tail(items), todo)
NextHoldRequestOrder(r, todo) == FirstListed(r.items, todo)
NextHold(r, todo) == CHOOSE x \in todo : \A y \in todo : x <= y

\* Product.objects.select_for_update().filter(id__in=..., shop=shop):
\* rows are held in ascending id order, the stock is read under the hold
SaleLock(t) ==
    /\ pc[t] = "lock"
    /\ LET todo == {p \in Wanted(req[t]) : lock[PRow(p)] # t}
       IN  /\ todo # {}
           /\ LET p == NextHold(req[t], todo)
              IN  /\ HoldFree(t, PRow(p))
                  /\ lock' = [lock EXCEPT ![PRow(p)] = t]
                  /\ mem' = [mem EXCEPT ![t][p] = db.stock[p]]
    /\ UNCHANGED <<db, pc, req, res, pre, wr, idx, ops>>

\* stock check loop: 404 on a product outside the held set, 400 on
\* insufficient stock; both return a response, so the transaction commits
SaleCheck(t) ==
    /\ pc[t] = "lock"
    /\ \A p \in Wanted(req[t]) : lock[PRow(p)] = t
    /\ LET f == FirstFailing(req[t], mem[t], Wanted(req[t]), 1)
       IN  IF f = 0
           THEN /\ pc' = [pc EXCEPT ![t] = "save"]
                /\ UNCHANGED <<db, res, wr, mem, idx, lock>>
           ELSE LET p == req[t].items[f].product
                IN  /\ db' = Apply(db, wr[t])
                    /\ IF p \notin Wanted(req[t])
                       THEN Finish(t, Result("404", "product_not_found", p, 0))
                       ELSE Finish(t, Result("400", "insufficient_stock", p, mem[t][p]))
    /\ UNCHANGED <<req, pre, ops>>

\* serializer.save(): SaleSerializer.create with Sale.save
SaleSave(t) ==
    /\ pc[t] = "save"
    /\ LET r == req[t]
           hasCust == r.cust.phone # ""
           cw == CustomerWrites(db.customers, r.shop, r.cust)
           w0 == [wr[t] EXCEPT !.customers = cw]
       IN  IF Overpaid(r.paid, r.total) \/ CustomerMissing(r.method, r.cust)
           THEN /\ db' = IF SaleAtomic THEN db ELSE Apply(db, w0)
                /\ Finish(t, Result("400",
                      IF Overpaid(r.paid, r.total) THEN "overpaid" ELSE "customer_required",
                      0, 0))
           ELSE IF EarnedPoints(r.total) < 0
           THEN /\ db' = IF SaleAtomic THEN db ELSE Apply(db, w0)
                /\ Finish(t, Result("500", "points_out_of_range", 0, 0))
           ELSE LET c == GetOrCreateCustomer(db.customers, r.shop, r.cust)
                    earned == EarnedPoints(r.total)
                    p1 == SaleSavePoints(c.points, r.redeemed, earned)
                    p2 == SaleSavePoints(p1, r.redeemed, earned)
                    p3 == SerializerPoints(p2, r.total, r.redeemed)
                    row == [id |-> 0, shop |-> r.shop,
                            customer |-> IF hasCust THEN <<r.shop, r.cust.phone>> ELSE NoCustKey,
                            subtotal |-> r.subtotal, discount |-> r.discount,
                            vat |-> r.vat,
                            total |-> r.total, method |-> r.method,
                            paid |-> SalePaid(r.method, r.total, r.paid),
                            due |-> SaleDue(r.method, r.total, r.paid),
                            redeemed |-> r.redeemed, earned |-> earned]
                    itemRows == [i \in 1..Len(r.items) |->
                                   [sale |-> 1, product |-> r.items[i].product,
                                    variant |-> r.items[i].variant, qty |-> r.items[i].qty,
                                    total |-> r.items[i].total]]
                IN  /\ wr' = [wr EXCEPT ![t] =
                               [@ EXCEPT !.customers = IF hasCust
                                                       THEN {[c EXCEPT !.points = p3]}
                                                       ELSE {},
                                         !.sales = <<row>>,
                                         !.saleItems = itemRows]]
                    /\ pc' = [pc EXCEPT ![t] = "deduct"]
                    /\ UNCHANGED <<db, res, mem, idx, lock>>
    /\ UNCHANGED <<req, pre, ops>>

\* stock deduction loop and the end of the atomic block
SaleDeduct(t) ==
    /\ pc[t] = "deduct"
    /\ LET d == DeductStock(req[t].items, 1, [m |-> mem[t], ok |-> TRUE])
           w == [wr[t] EXCEPT !.pw = SaleProductIds(req[t]), !.stock = d.m]
       IN  IF d.ok
           THEN /\ db' = Apply(db, w)
                /\ Finish(t, Result("201", "sale", Len(db.sales) + 1, 0))
           ELSE /\ db' = IF SaleAtomic THEN db ELSE Apply(db, wr[t])
                /\ Finish(t, Result("500", "stock_out_of_range", 0, 0))
    /\ UNCHANGED <<req, pre, ops>>

\* ---------------------------------------------------------------- Purchase
\* with transaction.atomic() in PurchaseSerializer.create
PurchaseNotAtomic == FALSE
PurchaseAtomic == TRUE

\* PurchaseItem.save: derived fields.  pack_size and qty_packs are whole
\* numbers here, so the Decimal products are exact at the column scale.
TotalBaseQty(line) == Whole(line.pack_size * line.qty_packs)
LineTotal(line) == line.price * line.qty_packs

\* cost_per_base_unit has 4 decimal places; it is kept in units of 1/CostScale
CostScale == 10000
CostPerBaseUnitTruncated(line) ==
    IF line.pack_size > 0 THEN TruncDiv(line.price * CostScale, line.pack_size) ELSE 0
CostPerBaseUnit(line) ==
    IF line.pack_size > 0 THEN RoundHalfEven(line.price * CostScale, line.pack_size) ELSE 0

\* Purchase.save
PurchaseDueNoPaid(total, paid) == total
PurchaseDue(total, paid) == total - paid

\* PurchaseItem.save: the row whose stock the line increases
NoRow == <<"none", 0>>
LineTarget(line) ==
    IF line.variant # NoId THEN VRow(line.variant)
    ELSE IF line.product # NoId THEN PRow(line.product)
    ELSE NoRow

\* PurchaseSerializer.create: `if product and item.batch_no`
LedgerNeeded(line) == LineTarget(line) # NoRow /\ line.batch # ""

\* serializer.is_valid(): related fields must name existing rows
PurchaseValid(r) ==
    \A i \in 1..Len(r.lines) :
        /\ r.lines[i].product \in Products \cup {NoId}
        /\ r.lines[i].variant \in Variants \cup {NoId}

\* the model instance each line gets from validation: one per line, loaded
\* from the committed tables
LineInstanceStock(d, line) ==
    IF line.variant # NoId THEN d.vstock[line.variant]
    ELSE IF line.product # NoId THEN d.stock[line.product]
    ELSE 0

\* PurchaseViewSet.create: serializer.is_valid(), Purchase.objects.create
PurchaseBegin(t, R, others) ==
    /\ Idle(t)
    /\ ops < MaxOps
    /\ \A u \in Procs \ {t} : others \/ Idle(u)
    /\ \E r \in R :
         /\ req' = [req EXCEPT ![t] = r]
         /\ pre' = [pre EXCEPT ![t] = db]
         /\ ops' = ops + 1
         /\ IF PurchaseValid(r)
            THEN /\ pc' = [pc EXCEPT ![t] = "pline"]
                 /\ res' = [res EXCEPT ![t] = NoRes]
                 /\ idx' = [idx EXCEPT ![t] = 1]
                 /\ mem' = [mem EXCEPT ![t] =
                              [i \in 1..Len(r.lines) |-> LineInstanceStock(db, r.lines[i])]]
                 /\ wr' = [wr EXCEPT ![t] =
                              [EmptyWr EXCEPT !.purchases =
                                 <<[id |-> 0, shop |-> r.shop, supplier |-> r.supplier,
                                    discount |-> r.discount, paid |-> r.paid,
                                    subtotal |-> 0, total |-> 0,
                                    due |-> PurchaseDue(0, r.paid)]>>]]
            ELSE /\ pc' = [pc EXCEPT ![t] = "done"]
                 /\ res' = [res EXCEPT ![t] = Result("400", "invalid", 0, 0)]
                 /\ UNCHANGED <<idx, mem, wr>>
    /\ UNCHANGED <<db, lock>>

\* one pass of the loop: PurchaseItem.objects.create (PurchaseItem.save) and
\* the StockLedger row
PurchaseLine(t) ==
    /\ pc[t] = "pline"
    /\ idx[t] <= Len(req[t].lines)
    /\ LET i == idx[t]
           line == req[t].lines[i]
           tgt == LineTarget(line)
           tbq == TotalBaseQty(line)
           v == mem[t][i] + tbq
           item == [id |-> 0, purchase |-> 1, product |-> line.product,
                    variant |-> line.variant, pack_size |-> line.pack_size,
                    qty_packs |-> line.qty_packs, price |-> line.price,
                    batch |-> line.batch, expiry |-> line.expiry,
                    total_base_qty |-> tbq, cost |-> CostPerBaseUnit(line),
                    total |-> LineTotal(line)]
           led == [shop |-> req[t].shop, product |-> line.product,
                   variant |-> line.variant, type |-> "purchase",
                   batch |-> line.batch, expiry |-> line.expiry,
                   quantity |-> tbq, remaining |-> tbq,
                   purchase_item |-> Len(wr[t].purchaseItems) + 1]
           w1 == [wr[t] EXCEPT !.purchaseItems = Append(@, item)]
           w2 == IF tgt[1] = "variant"
                 THEN [w1 EXCEPT !.vw = @ \cup {line.variant}, !.vstock[line.variant] = v]
                 ELSE IF tgt[1] = "product"
                 THEN [w1 EXCEPT !.pw = @ \cup {line.product}, !.stock[line.product] = v]
                 ELSE w1
           w3 == IF LedgerNeeded(line) THEN [w2 EXCEPT !.ledger = Append(@, led)] ELSE w2
       IN  /\ tgt # NoRow => HoldFree(t, tgt)
           /\ IF tbq > StockCap \/ tbq < -StockCap
                 \/ (tgt # NoRow /\ (v > StockCap \/ v < -StockCap))
              THEN /\ db' = IF PurchaseAtomic THEN db ELSE Apply(db, wr[t])
                   /\ Finish(t, Result("500", "stock_out_of_range", i, 0))
              ELSE /\ wr' = [wr EXCEPT ![t] = w3]
                   /\ idx' = [idx EXCEPT ![t] = i + 1]
                   /\ lock' = IF tgt # NoRow THEN [lock EXCEPT ![tgt] = t] ELSE lock
                   /\ UNCHANGED <<db, pc, res, mem>>
    /\ UNCHANGED <<req, pre, ops>>

\* totals of the header (Purchase.save) and the end of the atomic block
PurchaseFinish(t) ==
    /\ pc[t] = "pline"
    /\ idx[t] > Len(req[t].lines)
    /\ LET its == wr[t].purchaseItems
           subtotal == SumSeq([i \in 1..Len(its) |-> its[i].total])
           total == subtotal - req[t].discount
           w == [wr[t] EXCEPT !.purchases[1].subtotal = subtotal,
                              !.purchases[1].total = total,
                              !.purchases[1].due = PurchaseDue(total, req[t].paid)]
       IN  /\ db' = Apply(db, w)
           /\ Finish(t, Result("201", "purchase", Len(db.purchases) + 1, 0))
    /\ UNCHANGED <<req, pre, ops>>

\* DELETE /purchases/<id>/ (ModelViewSet.destroy): the Purchase of the caller's
\* shop is deleted, its PurchaseItems go with it (on_delete=CASCADE) and the
\* StockLedger rows that reference them get purchase_item = NULL
\* (on_delete=SET_NULL).  No stock is changed.  Deleted rows keep their place
\* in the tables and are listed in db.removed.
PurchaseDestroy(t, shop) ==
    /\ Idle(t)
    /\ ops < MaxOps
    /\ \A u \in Procs \ {t} : Idle(u)
    /\ \E k \in 1..Len(db.purchases) :
         /\ k \notin db.removed.purchases
         /\ db.purchases[k].shop = shop
         /\ LET gone == {i \in 1..Len(db.purchaseItems) :
                           /\ i \notin db.removed.purchaseItems
                           /\ db.purchaseItems[i].purchase = k}
            IN  /\ db' = [db EXCEPT
                           !.removed.purchases = @ \cup {k},
                           !.removed.purchaseItems = @ \cup gone,
                           !.ledger = [j \in 1..Len(db.ledger) |->
                                         IF db.ledger[j].purchase_item \in gone
                                         THEN [db.ledger[j] EXCEPT !.purchase_item = NoId]
                                         ELSE db.ledger[j]]]
                /\ req' = [req EXCEPT ![t] = [op |-> "purchase_destroy", shop |-> shop, id |-> k]]
                /\ res' = [res EXCEPT ![t] = Result("204", "deleted", k, 0)]
    /\ pre' = [pre EXCEPT ![t] = db]
    /\ pc' = [pc EXCEPT ![t] = "done"]
    /\ ops' = ops + 1
    /\ UNCHANGED <<wr, mem, idx, lock>>

\* ---------------------------------------------------------------- Cash ledger
Signed(e) == IF e.type = "credit" THEN e.amount ELSE -e.amount

\* CashTransaction.get_current_balance(shop):
\* Sum(Case(When(credit, amount), 0)) - Sum(Case(When(debit, amount), 0))
RECURSIVE SumWhen(_, _, _)
SumWhen(rows, shop, type) ==
    IF rows = <<>> THEN 0
    ELSE (IF Head(rows).shop = shop /\ Head(rows).type = type
          THEN Head(rows).amount ELSE 0)
         + SumWhen(Tail(rows), shop, type)

get_current_balance_all_shops(rows, shop) ==
    SumSeq([i \in 1..Len(rows) |-> Signed(rows[i])])
get_current_balance_credits(rows, shop) == SumWhen(rows, shop, "credit")
get_current_balance(rows, shop) ==
    SumWhen(rows, shop, "credit") - SumWhen(rows, shop, "debit")

\* append(entry): running_balance = previous_running_balance(tenant) +/- amount
previous_running_balance(rows, shop) ==
    LET mine == SelectSeq(rows, LAMBDA e : e.shop = shop)
    IN  IF mine = <<>> THEN 0 ELSE mine[Len(mine)].running_balance

\* CashTransactionCreateSerializer.create: a manual entry of the caller's shop
AppendCashEntry(E) ==
    /\ Len(db.cash) < MaxCash
    /\ \E e \in E :
         db' = [db EXCEPT !.cash = Append(@,
                   [shop |-> e.shop, type |-> e.type, amount |-> e.amount,
                    is_manual |-> TRUE,
                    running_balance |->
                        previous_running_balance(db.cash, e.shop) + Signed(e)])]
    /\ UNCHANGED <<pc, req, res, pre, wr, mem, idx, lock, ops>>


\* ---------------------------------------------------------------- suppliers and customers: payments and dues
Suppliers == {1, 2}

\* Purchase rows of a supplier that are still in the table
PurchasesOf(d, s) ==
    {k \in 1..Len(d.purchases) : k \notin d.removed.purchases /\ d.purchases[k].supplier = s}

\* Sum("total") over Purchase.objects.filter(supplier=obj)
get_total_purchases(d, s) ==
    SumSeq([k \in 1..Len(d.purchases) |->
              IF k \in PurchasesOf(d, s) THEN d.purchases[k].total ELSE 0])

\* Sum("amount") over SupplierPayment.objects.filter(supplier=obj)
get_total_paid(d, s) ==
    SumSeq([k \in 1..Len(d.supplierPayments) |->
              IF d.supplierPayments[k].supplier = s THEN d.supplierPayments[k].amount ELSE 0])

\* SupplierSerializer.get_total_due
get_total_due(d, s) == get_total_purchases(d, s) - get_total_paid(d, s)

\* SupplierViewSet.ledger: total_due of the answer
SupplierLedgerTotalDue(d, s) ==
    LET total_purchase == get_total_purchases(d, s)
        total_paid == get_total_paid(d, s)
    IN  total_purchase - total_paid

\* POST /supplier-payments/: SupplierPaymentViewSet.create
SupplierPaymentCreate(t, P) ==
    /\ Idle(t)
    /\ ops < MaxOps
    /\ \A u \in Procs \ {t} : Idle(u)
    /\ \E q \in P :
         /\ req' = [req EXCEPT ![t] = q]
         /\ IF q.supplier \in Suppliers
            THEN /\ db' = [db EXCEPT !.supplierPayments =
                             Append(@, [shop |-> q.shop, supplier |-> q.supplier,
                                        amount |-> q.amount])]
                 /\ res' = [res EXCEPT ![t] =
                             Result("201", "supplier_payment", Len(db.supplierPayments) + 1, 0)]
            ELSE /\ db' = db
                 /\ res' = [res EXCEPT ![t] = Result("400", "invalid", 0, 0)]
    /\ pre' = [pre EXCEPT ![t] = db]
    /\ pc' = [pc EXCEPT ![t] = "done"]
    /\ ops' = ops + 1
    /\ UNCHANGED <<wr, mem, idx, lock>>

\* the three aggregates of CustomerViewSet.ledger, CustomerLedgerDetailView.get
\* and CustomerViewSet.repay; a customer is named by (shop, phone)
total_sales(d, c) ==
    SumSeq([k \in 1..Len(d.sales) |-> IF d.sales[k].customer = c THEN d.sales[k].total ELSE 0])
total_paid_in_sale(d, c) ==
    SumSeq([k \in 1..Len(d.sales) |-> IF d.sales[k].customer = c THEN d.sales[k].paid ELSE 0])
total_repaid(d, c) ==
    SumSeq([k \in 1..Len(d.customerPayments) |->
              IF d.customerPayments[k].customer = c THEN d.customerPayments[k].amount ELSE 0])

\* CustomerViewSet.ledger: summary.total_due
CustomerLedgerTotalDue(d, c) ==
    LET total_paid == total_paid_in_sale(d, c) + total_repaid(d, c)
    IN  total_sales(d, c) - total_paid

\* CustomerLedgerDetailView.get: totals.total_due
CustomerLedgerDetailTotalDue(d, c) ==
    LET total_paid == total_paid_in_sale(d, c) + total_repaid(d, c)
    IN  total_sales(d, c) - total_paid

\* CustomerViewSet.repay: current_due
current_due(d, c) == total_sales(d, c) - (total_paid_in_sale(d, c) + total_repaid(d, c))

CustomerKeys(d) == {<<c.shop, c.phone>> : c \in d.customers}

\* CustomerViewSet.repay up to the overpay test: get_object, the amount test,
\* the three aggregates read from the tables.  Nothing is held.
RepayCheck(t, R) ==
    /\ Idle(t)
    /\ ops < MaxOps
    /\ ops' = ops + 1
    /\ pre' = [pre EXCEPT ![t] = db]
    /\ \E q \in R :
         /\ req' = [req EXCEPT ![t] = q]
         /\ IF q.customer \notin CustomerKeys(db) \/ q.customer[1] # q.shop
            THEN /\ pc' = [pc EXCEPT ![t] = "done"]
                 /\ res' = [res EXCEPT ![t] = Result("404", "not_found", 0, 0)]
            ELSE IF q.amount <= 0
            THEN /\ pc' = [pc EXCEPT ![t] = "done"]
                 /\ res' = [res EXCEPT ![t] = Result("400", "amount_not_positive", 0, 0)]
            ELSE IF q.amount > current_due(db, q.customer)
            THEN /\ pc' = [pc EXCEPT ![t] = "done"]
                 /\ res' = [res EXCEPT ![t] =
                             Result("400", "overpay", 0, current_due(db, q.customer))]
            ELSE /\ pc' = [pc EXCEPT ![t] = "repay"]
                 /\ res' = [res EXCEPT ![t] = NoRes]
    /\ UNCHANGED <<db, wr, mem, idx, lock>>

\* CustomerViewSet.repay: CustomerPayment.objects.create and the answer
RepayCreate(t) ==
    /\ pc[t] = "repay"
    /\ db' = [db EXCEPT !.customerPayments =
                Append(@, [shop |-> req[t].shop, customer |-> req[t].customer,
                           amount |-> req[t].amount])]
    /\ pc' = [pc EXCEPT ![t] = "done"]
    /\ res' = [res EXCEPT ![t] =
                Result("200", "payment", Len(db.customerPayments) + 1, 0)]
    /\ UNCHANGED <<req, pre, wr, mem, idx, lock, ops>>

\* POST /customer-payments/: CustomerPaymentViewSet.create
CustomerPaymentCreate(t, P) ==
    /\ Idle(t)
    /\ ops < MaxOps
    /\ \A u \in Procs \ {t} : Idle(u)
    /\ \E q \in P :
         /\ req' = [req EXCEPT ![t] = q]
         /\ IF q.customer \in CustomerKeys(db)
            THEN /\ db' = [db EXCEPT !.customerPayments =
                             Append(@, [shop |-> q.shop, customer |-> q.customer,
                                        amount |-> q.amount])]
                 /\ res' = [res EXCEPT ![t] =
                             Result("201", "customer_payment", Len(db.customerPayments) + 1, 0)]
            ELSE /\ db' = db
                 /\ res' = [res EXCEPT ![t] = Result("400", "invalid", 0, 0)]
    /\ pre' = [pre EXCEPT ![t] = db]
    /\ pc' = [pc EXCEPT ![t] = "done"]
    /\ ops' = ops + 1
    /\ UNCHANGED <<wr, mem, idx, lock>>

\* ---------------------------------------------------------------- SubscriptionMiddleware
\* a Shop row as the middleware sees it.  expire says where expire_date lies
\* relative to date.today(): "none" (NULL), "past" or "future"; pr is the
\* state of the shop's PaymentRequest rows: "none", "pending" or "verified"
ActiveShop == [plan |-> "monthly", is_active |-> TRUE, expire |-> "future", pr |-> "none"]

\* hasattr(shop, 'payment_request'): the reverse accessor of PaymentRequest.shop
\* is named payment_requests, so a Shop never has this attribute
HasPaymentRequest(shop) == FALSE

\* shop.plan == "trial" and shop.expire_date and shop.expire_date < date.today()
TrialExpiredNever(shop) == FALSE
TrialExpired(shop) == shop.plan = "trial" /\ shop.expire = "past"

\* activate_monthly / activate_yearly, or is_active = True for a trial
ActivateShop(shop) ==
    IF shop.plan \in {"monthly", "yearly"}
    THEN [shop EXCEPT !.is_active = TRUE, !.expire = "future"]
    ELSE [shop EXCEPT !.is_active = TRUE]

\* the subscription checks on the user's shop: the stored shop afterwards and
\* the answer ("view" stands for get_response(request))
ShopCheck(s0) ==
    LET s1 == IF TrialExpired(s0) THEN [s0 EXCEPT !.is_active = FALSE] ELSE s0
        s2 == IF ~s1.is_active /\ HasPaymentRequest(s1) /\ s1.pr = "verified"
              THEN ActivateShop(s1) ELSE s1
    IN  IF ~s2.is_active
        THEN [shop |-> s2, status |-> "402",
              kind |-> IF ~HasPaymentRequest(s2) THEN "SUBSCRIPTION_INACTIVE"
                       ELSE IF s2.pr = "verified" THEN "ACTIVATION_PENDING"
                       ELSE "PAYMENT_PENDING"]
        ELSE IF s2.expire = "past" /\ s2.plan # "trial"
        THEN [shop |-> s2, status |-> "402", kind |-> "SUBSCRIPTION_EXPIRED"]
        ELSE [shop |-> s2, status |-> "view", kind |-> "passed"]

\* SubscriptionMiddleware.__call__ on one request
Middleware(q, shop) ==
    IF q.path \in {"admin", "static", "public"} \/ q.method = "OPTIONS"
    THEN [shop |-> shop, status |-> "view", kind |-> "passed"]
    ELSE IF q.auth = "none"
    THEN IF q.path = "check_shop_status"
         THEN [shop |-> shop, status |-> "view", kind |-> "passed"]
         ELSE [shop |-> shop, status |-> "401", kind |-> "authentication_required"]
    ELSE IF q.auth = "user_without_profile"
    THEN [shop |-> shop, status |-> "400", kind |-> "profile_not_found"]
    ELSE ShopCheck(shop)

HandleRequest(t, Q) ==
    /\ Idle(t)
    /\ ops < MaxOps
    /\ \E q \in Q :
         LET out == Middleware(q, db.shops[q.shop])
         IN  /\ req' = [req EXCEPT ![t] = q]
             /\ db' = [db EXCEPT !.shops[q.shop] = out.shop]
             /\ res' = [res EXCEPT ![t] = Result(out.status, out.kind, 0, 0)]
    /\ pre' = [pre EXCEPT ![t] = db]
    /\ pc' = [pc EXCEPT ![t] = "done"]
    /\ ops' = ops + 1
    /\ UNCHANGED <<wr, mem, idx, lock>>

\* ---------------------------------------------------------------- initial state
EmptyDb(stock, vstock, customers) ==
    [stock |-> stock, vstock |-> vstock, customers |-> customers,
     sales |-> <<>>, saleItems |-> <<>>,
     purchases |-> <<>>, purchaseItems |-> <<>>, ledger |-> <<>>,
     cash |-> <<>>,
     removed |-> [purchases |-> {}, purchaseItems |-> {}],
     shops |-> [s \in Shops |-> ActiveShop],
     supplierPayments |-> <<>>, customerPayments |-> <<>>]

InitWith(StockChoices, PointChoices) ==
    /\ \E s \in StockChoices, ip \in PointChoices :
         db = EmptyDb(s, [v \in Variants |-> Whole(1)],
                      {[shop |-> 1, phone |-> "p1", name |-> "A", points |-> ip]})
    /\ pc = [t \in Procs |-> "idle"]
    /\ req = [t \in Procs |-> NoReq]
    /\ res = [t \in Procs |-> NoRes]
    /\ pre = [t \in Procs |-> db]
    /\ wr = [t \in Procs |-> EmptyWr]
    /\ mem = [t \in Procs |-> ZeroMem]
    /\ idx = [t \in Procs |-> 0]
    /\ lock = [r \in Rows |-> 0]
    /\ ops = 0

\* ---------------------------------------------------------------- sales, one at a time
SaleItemChoices ==
    { <<[product |-> 1, variant |-> NoId, qty |-> Whole(1), total |-> 250]>>,
      <<[product |-> 1, variant |-> NoId, qty |-> Whole(3), total |-> 250]>>,
      <<[product |-> 1, variant |-> NoId, qty |-> Whole(1), total |-> 125],
        [product |-> 2, variant |-> NoId, qty |-> Whole(1), total |-> 125]>>,
      <<[product |-> 3, variant |-> NoId, qty |-> Whole(1), total |-> 250]>>,
      <<[product |-> NoSuchProduct, variant |-> NoId, qty |-> Whole(1), total |-> 250]>>,
      <<[product |-> 1, variant |-> NoId, qty |-> -Whole(StockCapUnits), total |-> 250]>> }

SaleCustChoices ==
    { NoCust, [phone |-> "p1", name |-> "B"], [phone |-> "p2", name |-> "B"] }

\* (method, paid_amount sent, total sent)
SalePaymentChoices ==
    { <<"cash", 0, 250>>, <<"cash", 100, 250>>, <<"cash", 300, 250>>,
      <<"due", 100, 250>>, <<"due", 300, 250>>, <<"due", 0, 0>> }

SaleRequests ==
    { [op |-> "sale", shop |-> 1, cust |-> c, items |-> it, method |-> pay[1],
       paid |-> pay[2], subtotal |-> pay[3], discount |-> 0, vat |-> 0,
       total |-> pay[3], redeemed |-> rd] :
        c \in SaleCustChoices, it \in SaleItemChoices, pay \in SalePaymentChoices,
        rd \in {0, 3} }

InitSale == InitWith({<<Whole(2), Whole(1), Whole(1)>>}, {2, 5})

NextSale ==
    \/ SaleBegin(1, SaleRequests, FALSE)
    \/ SaleLock(1)
    \/ SaleCheck(1)
    \/ SaleSave(1)
    \/ SaleDeduct(1)

SpecSale == InitSale /\ [][NextSale]_vars

\* ---------------------------------------------------------------- sale amounts and lines
\* sales whose amounts and lines carry the values a caller is free to send:
\* amounts that do or do not add up, a discount above the subtotal, a
\* fractional quantity, two lines for one product, a line that names a
\* variant, a quantity below zero
AmountItemChoices ==
    { <<[product |-> 1, variant |-> NoId, qty |-> Whole(1), total |-> 250]>>,
      <<[product |-> 1, variant |-> NoId, qty |-> -Whole(1), total |-> 250]>>,
      <<[product |-> 1, variant |-> NoId, qty |-> Whole(1) + 1, total |-> 250]>>,
      <<[product |-> 1, variant |-> NoId, qty |-> Whole(2), total |-> 125],
        [product |-> 1, variant |-> NoId, qty |-> Whole(2), total |-> 125]>>,
      <<[product |-> 1, variant |-> 1, qty |-> Whole(1), total |-> 250]>> }

\* (subtotal, discount, vat_amount, total, paid_amount sent)
AmountChoices ==
    { <<250, 0, 0, 250, 0>>, <<250, 10, 5, 245, 0>>, <<100, 0, 0, 250, 0>>,
      <<250, 0, 0, 99, 0>>, <<250, 300, 0, -50, -60>>, <<250, 400, 0, -150, -160>> }

AmountRequests ==
    { [op |-> "sale", shop |-> 1, cust |-> c, items |-> it, method |-> "cash",
       paid |-> am[5], subtotal |-> am[1], discount |-> am[2], vat |-> am[3],
       total |-> am[4], redeemed |-> 0] :
        c \in {NoCust, [phone |-> "p1", name |-> "A"]}, it \in AmountItemChoices,
        am \in AmountChoices }

InitSaleAmounts == InitWith({<<Whole(2), Whole(1), Whole(1)>>}, {2})

NextSaleAmounts ==
    \/ SaleBegin(1, AmountRequests, FALSE)
    \/ SaleLock(1)
    \/ SaleCheck(1)
    \/ SaleSave(1)
    \/ SaleDeduct(1)

SpecSaleAmounts == InitSaleAmounts /\ [][NextSaleAmounts]_vars

\* ---------------------------------------------------------------- customers of two shops
\* sales of both shops, with a phone number both shops know, a new one, and
\* a customer sent without a name
CustomerChoices ==
    { NoCust, [phone |-> "p1", name |-> "B"], [phone |-> "p2", name |-> "B"],
      [phone |-> "p2", name |-> ""] }

CustomerSaleRequests ==
    { [op |-> "sale", shop |-> sh, cust |-> c,
       items |-> <<[product |-> IF sh = 1 THEN 1 ELSE 3, variant |-> NoId,
                    qty |-> Whole(1), total |-> 250]>>,
       method |-> me, paid |-> 0, subtotal |-> 250, discount |-> 0, vat |-> 0,
       total |-> 250, redeemed |-> 0] :
        sh \in Shops, c \in CustomerChoices, me \in {"cash", "due"} }

InitCustomers ==
    /\ \E ip \in {2, 5} :
         db = EmptyDb(<<Whole(2), Whole(1), Whole(2)>>, [v \in Variants |-> Whole(1)],
                      {[shop |-> 1, phone |-> "p1", name |-> "A", points |-> ip],
                       [shop |-> 2, phone |-> "p1", name |-> "Z", points |-> 7]})
    /\ pc = [t \in Procs |-> "idle"]
    /\ req = [t \in Procs |-> NoReq]
    /\ res = [t \in Procs |-> NoRes]
    /\ pre = [t \in Procs |-> db]
    /\ wr = [t \in Procs |-> EmptyWr]
    /\ mem = [t \in Procs |-> ZeroMem]
    /\ idx = [t \in Procs |-> 0]
    /\ lock = [r \in Rows |-> 0]
    /\ ops = 0

NextCustomers ==
    \/ SaleBegin(1, CustomerSaleRequests, FALSE)
    \/ SaleLock(1)
    \/ SaleCheck(1)
    \/ SaleSave(1)
    \/ SaleDeduct(1)

SpecCustomers == InitCustomers /\ [][NextCustomers]_vars

\* ---------------------------------------------------------------- purchases, one at a time
LineA == [product |-> 1, variant |-> NoId, pack_size |-> 2, qty_packs |-> 1,
          price |-> 10, batch |-> "b1", expiry |-> 1]
LineB == [product |-> 1, variant |-> NoId, pack_size |-> 1, qty_packs |-> 1,
          price |-> 5, batch |-> "", expiry |-> 0]
LineC == [product |-> NoId, variant |-> 1, pack_size |-> 1, qty_packs |-> 2,
          price |-> 7, batch |-> "b2", expiry |-> 2]
LineD == [product |-> NoId, variant |-> NoId, pack_size |-> 1, qty_packs |-> 1,
          price |-> 3, batch |-> "b1", expiry |-> 1]
LineE == [product |-> 2, variant |-> NoId, pack_size |-> 3, qty_packs |-> 2,
          price |-> 1, batch |-> "", expiry |-> 0]
LineChoices == {LineA, LineB, LineC, LineD, LineE}

LineSeqs == {<<>>} \cup {<<a>> : a \in LineChoices}
                   \cup {<<a, b>> : a \in LineChoices, b \in LineChoices}

PurchaseRequests ==
    { [op |-> "purchase", shop |-> 1, supplier |-> 1, discount |-> d, paid |-> pa,
       lines |-> ls] : d \in {0, 5}, pa \in {0, 10}, ls \in LineSeqs }

InitPurchase == InitWith({<<Whole(2), Whole(1), Whole(1)>>}, {0})

NextPurchase ==
    \/ PurchaseBegin(1, PurchaseRequests, FALSE)
    \/ PurchaseLine(1)
    \/ PurchaseFinish(1)

SpecPurchase == InitPurchase /\ [][NextPurchase]_vars

\* ---------------------------------------------------------------- purchase lines
\* purchases whose lines carry the values a caller is free to send: a price
\* that does not divide, a negative qty_packs, a pack_size of 0, a product of
\* another shop, no target at all
LineF == [product |-> 1, variant |-> NoId, pack_size |-> 3, qty_packs |-> 1,
          price |-> 20, batch |-> "", expiry |-> 0]
LineG == [product |-> 1, variant |-> NoId, pack_size |-> 1, qty_packs |-> -1,
          price |-> 5, batch |-> "b1", expiry |-> 1]
LineH == [product |-> 2, variant |-> NoId, pack_size |-> 0, qty_packs |-> 2,
          price |-> 5, batch |-> "", expiry |-> 0]
LineI == [product |-> 3, variant |-> NoId, pack_size |-> 1, qty_packs |-> 1,
          price |-> 4, batch |-> "b3", expiry |-> 3]
FreeLineChoices == {LineA, LineD, LineF, LineG, LineH, LineI}

FreeLineSeqs == {<<>>} \cup {<<a>> : a \in FreeLineChoices}
                       \cup {<<a, b>> : a \in FreeLineChoices, b \in FreeLineChoices}

FreeLineRequests ==
    { [op |-> "purchase", shop |-> 1, supplier |-> 1, discount |-> 0, paid |-> 0,
       lines |-> ls] : ls \in FreeLineSeqs }

InitPurchaseLines == InitWith({<<Whole(2), Whole(1), Whole(1)>>}, {0})

NextPurchaseLines ==
    \/ PurchaseBegin(1, FreeLineRequests, FALSE)
    \/ PurchaseLine(1)
    \/ PurchaseFinish(1)

SpecPurchaseLines == InitPurchaseLines /\ [][NextPurchaseLines]_vars

\* ---------------------------------------------------------------- concurrent sales
\* two requests at a time, each naming a product at most once
ContentionItemChoices ==
    { <<[product |-> 1, variant |-> NoId, qty |-> Whole(1), total |-> 250]>>,
      <<[product |-> 1, variant |-> NoId, qty |-> Whole(2), total |-> 250]>>,
      <<[product |-> 1, variant |-> NoId, qty |-> Whole(3), total |-> 250]>>,
      <<[product |-> 1, variant |-> NoId, qty |-> Whole(1) + 1, total |-> 250]>>,
      <<[product |-> 2, variant |-> NoId, qty |-> Whole(1), total |-> 250]>>,
      <<[product |-> 1, variant |-> NoId, qty |-> Whole(1), total |-> 125],
        [product |-> 2, variant |-> NoId, qty |-> Whole(1), total |-> 125]>>,
      <<[product |-> 2, variant |-> NoId, qty |-> Whole(1), total |-> 125],
        [product |-> 1, variant |-> NoId, qty |-> Whole(2), total |-> 125]>> }

ContentionRequests ==
    { [op |-> "sale", shop |-> 1, cust |-> NoCust, items |-> it, method |-> "cash",
       paid |-> 0, subtotal |-> to, discount |-> 0, vat |-> 0, total |-> to,
       redeemed |-> 0] :
        it \in ContentionItemChoices, to \in {250} }

InitContention ==
    InitWith({<<Whole(2), Whole(1), Whole(1)>>, <<Whole(3), Whole(2), Whole(1)>>}, {0})

NextContention ==
    \E t \in Procs :
        \/ SaleBegin(t, ContentionRequests, TRUE)
        \/ SaleLock(t)
        \/ SaleCheck(t)
        \/ SaleSave(t)
        \/ SaleDeduct(t)

SpecContention == InitContention /\ [][NextContention]_vars

\* a request that was accepted is worked on until it is answered: the server
\* runs every handler to its end and a waiting locking read goes on as soon as
\* the row is free
SaleSteps(t) == SaleLock(t) \/ SaleCheck(t) \/ SaleSave(t) \/ SaleDeduct(t)

SpecContentionFair ==
    InitContention /\ [][NextContention]_vars /\ \A t \in Procs : WF_vars(SaleSteps(t))

\* ---------------------------------------------------------------- sales and purchases together
\* two requests at a time, sales and purchases, all with quantities >= 0
StoreItemChoices ==
    { <<[product |-> 1, variant |-> NoId, qty |-> Whole(1), total |-> 250]>>,
      <<[product |-> 1, variant |-> NoId, qty |-> Whole(2), total |-> 125],
        [product |-> 1, variant |-> NoId, qty |-> Whole(2), total |-> 125]>>,
      <<[product |-> 2, variant |-> NoId, qty |-> Whole(1), total |-> 250]>> }

StoreSaleRequests ==
    { [op |-> "sale", shop |-> 1, cust |-> NoCust, items |-> it, method |-> "cash",
       paid |-> 0, subtotal |-> 250, discount |-> 0, vat |-> 0, total |-> 250,
       redeemed |-> 0] : it \in StoreItemChoices }

StorePurchaseRequests ==
    { [op |-> "purchase", shop |-> 1, supplier |-> 1, discount |-> 0, paid |-> 0,
       lines |-> ls] : ls \in {<<LineA>>, <<LineB>>, <<LineC>>, <<LineE>>} }

InitStore == InitWith({<<Whole(2), Whole(1), Whole(1)>>}, {0})

NextStore ==
    \E t \in Procs :
        \/ SaleBegin(t, StoreSaleRequests, TRUE)
        \/ SaleLock(t)
        \/ SaleCheck(t)
        \/ SaleSave(t)
        \/ SaleDeduct(t)
        \/ PurchaseBegin(t, StorePurchaseRequests, TRUE)
        \/ PurchaseLine(t)
        \/ PurchaseFinish(t)

SpecStore == InitStore /\ [][NextStore]_vars

\* ---------------------------------------------------------------- ledger rows over time
\* purchases, deletion of purchases and manual cash entries
LedgerLineSeqs == {<<a>> : a \in {LineA, LineB, LineC}}
                      \cup {<<a, b>> : a \in {LineA, LineB, LineC}, b \in {LineA, LineB, LineC}}

LedgerPurchaseRequests ==
    { [op |-> "purchase", shop |-> 1, supplier |-> 1, discount |-> d, paid |-> 0,
       lines |-> ls] : d \in {0, 5}, ls \in LedgerLineSeqs }

LedgerCashEntries == { [shop |-> 1, type |-> "credit", amount |-> 500] }

InitLedgerRows == InitWith({<<Whole(2), Whole(1), Whole(1)>>}, {0})

NextLedgerRows ==
    \/ PurchaseBegin(1, LedgerPurchaseRequests, FALSE)
    \/ PurchaseLine(1)
    \/ PurchaseFinish(1)
    \/ PurchaseDestroy(1, 1)
    \/ AppendCashEntry(LedgerCashEntries)

SpecLedgerRows == InitLedgerRows /\ [][NextLedgerRows]_vars

\* ---------------------------------------------------------------- purchases and supplier payments
SupplierPurchaseRequests ==
    { [op |-> "purchase", shop |-> 1, supplier |-> su, discount |-> 0, paid |-> pa,
       lines |-> ls] : su \in Suppliers, pa \in {0, 10}, ls \in {<<LineA>>, <<LineF>>} }

SupplierPaymentRequests ==
    { [op |-> "supplier_payment", shop |-> 1, supplier |-> su, amount |-> am] :
        su \in Suppliers \cup {0}, am \in {5, 10} }

InitSuppliers == InitWith({<<Whole(2), Whole(1), Whole(1)>>}, {0})

NextSuppliers ==
    \/ PurchaseBegin(1, SupplierPurchaseRequests, FALSE)
    \/ PurchaseLine(1)
    \/ PurchaseFinish(1)
    \/ SupplierPaymentCreate(1, SupplierPaymentRequests)

SpecSuppliers == InitSuppliers /\ [][NextSuppliers]_vars

\* ---------------------------------------------------------------- sales and customer payments
DuesSaleRequests ==
    { [op |-> "sale", shop |-> 1, cust |-> c,
       items |-> <<[product |-> 1, variant |-> NoId, qty |-> Whole(1), total |-> 250]>>,
       method |-> me, paid |-> pa, subtotal |-> 250, discount |-> 0, vat |-> 0,
       total |-> 250, redeemed |-> 0] :
        c \in {NoCust, [phone |-> "p1", name |-> "A"], [phone |-> "p2", name |-> "B"]},
        me \in {"cash", "due"}, pa \in {0, 100} }

RepayRequests ==
    { [op |-> "repay", shop |-> sh, customer |-> c, amount |-> am] :
        sh \in Shops, c \in {<<1, "p1">>, <<1, "p9">>}, am \in {-10, 0, 100, 200} }

CustomerPaymentRequests ==
    { [op |-> "customer_payment", shop |-> 1, customer |-> c, amount |-> am] :
        c \in {<<1, "p1">>, <<1, "p9">>}, am \in {100, 300} }

InitCustomerDues == InitWith({<<Whole(2), Whole(1), Whole(1)>>}, {2})

NextCustomerDues ==
    \/ SaleBegin(1, DuesSaleRequests, FALSE)
    \/ SaleLock(1)
    \/ SaleCheck(1)
    \/ SaleSave(1)
    \/ SaleDeduct(1)
    \/ RepayCheck(1, RepayRequests)
    \/ RepayCreate(1)
    \/ CustomerPaymentCreate(1, CustomerPaymentRequests)

SpecCustomerDues == InitCustomerDues /\ [][NextCustomerDues]_vars

\* ---------------------------------------------------------------- concurrent repayments
\* customer (1, "p1") has bought one unit of product 1 on credit: total 250,
\* 100 paid at the sale
DueSale ==
    [shop |-> 1, id |-> 1, total |-> 250, method |-> "due",
     paid |-> SalePaid("due", 250, 100), redeemed |-> 0, earned |-> EarnedPoints(250),
     customer |-> <<1, "p1">>, subtotal |-> 250, discount |-> 0, vat |-> 0,
     due |-> SaleDue("due", 250, 100)]

InitRepay ==
    /\ db = [EmptyDb(<<Whole(1), Whole(1), Whole(1)>>, [v \in Variants |-> Whole(1)],
                     {[shop |-> 1, phone |-> "p1", name |-> "B", points |-> 8]})
               EXCEPT !.sales = <<DueSale>>,
                      !.saleItems = <<[sale |-> 1, total |-> 250, product |-> 1,
                                       qty |-> Whole(1), variant |-> NoId]>>]
    /\ pc = [t \in Procs |-> "idle"]
    /\ req = [t \in Procs |-> NoReq]
    /\ res = [t \in Procs |-> NoRes]
    /\ pre = [t \in Procs |-> db]
    /\ wr = [t \in Procs |-> EmptyWr]
    /\ mem = [t \in Procs |-> ZeroMem]
    /\ idx = [t \in Procs |-> 0]
    /\ lock = [r \in Rows |-> 0]
    /\ ops = 0

NextRepay ==
    \E t \in Procs :
        \/ RepayCheck(t, RepayRequests)
        \/ RepayCreate(t)

SpecRepay == InitRepay /\ [][NextRepay]_vars

\* ---------------------------------------------------------------- requests through the middleware
ShopStates ==
    { [plan |-> pl, is_active |-> a, expire |-> e, pr |-> p] :
        pl \in {"trial", "monthly", "yearly"}, a \in BOOLEAN,
        e \in {"none", "past", "future"}, p \in {"none", "pending", "verified"} }

HttpRequests ==
    { [op |-> "request", shop |-> 1, path |-> pa, method |-> me, auth |-> au] :
        pa \in {"admin", "static", "public", "check_shop_status", "api"},
        me \in {"GET", "POST", "OPTIONS"},
        au \in {"none", "user_without_profile", "user"} }

InitMiddleware ==
    /\ \E st \in ShopStates :
         db = [EmptyDb(<<Whole(2), Whole(1), Whole(1)>>, [v \in Variants |-> Whole(1)], {})
                 EXCEPT !.shops[1] = st]
    /\ pc = [t \in Procs |-> "idle"]
    /\ req = [t \in Procs |-> NoReq]
    /\ res = [t \in Procs |-> NoRes]
    /\ pre = [t \in Procs |-> db]
    /\ wr = [t \in Procs |-> EmptyWr]
    /\ mem = [t \in Procs |-> ZeroMem]
    /\ idx = [t \in Procs |-> 0]
    /\ lock = [r \in Rows |-> 0]
    /\ ops = 0

NextMiddleware == HandleRequest(1, HttpRequests)

SpecMiddleware == InitMiddleware /\ [][NextMiddleware]_vars

\* ---------------------------------------------------------------- cash ledger
CashEntries ==
    { [shop |-> s, type |-> ty, amount |-> a] :
        s \in Shops, ty \in {"credit", "debit"}, a \in {120, 500} }

InitCash == InitWith({<<Whole(2), Whole(1), Whole(1)>>}, {0})

NextCash == AppendCashEntry(CashEntries)

SpecCash == InitCash /\ [][NextCash]_vars

\* ---------------------------------------------------------------- claims on sales
SaleDone(t) == pc[t] = "done" /\ req[t].op = "sale"
SaleCommitted(t) == SaleDone(t) /\ res[t].status = "201"
SaleRejected(t) == SaleDone(t) /\ res[t].status # "201"
SaleRunning(t) == req[t].op = "sale" /\ pc[t] \in {"lock", "save", "deduct"}

\* C2: every persisted Sale has paid_amount = total and due_amount = 0 when
\* its payment method is not "due", and due_amount = total - paid_amount with
\* paid_amount <= total when it is "due".
C2_PaymentFields ==
    \A i \in 1..Len(db.sales) :
        LET s == db.sales[i]
        IN  /\ s.method # "due" => (s.paid = s.total /\ s.due = 0)
            /\ s.method = "due" => (s.due = s.total - s.paid /\ s.paid <= s.total)

\* a cash sale for which the caller sent a paid_amount other than the total
C2_Witness ==
    \E t \in Procs :
        /\ SaleCommitted(t)
        /\ req[t].method = "cash" /\ req[t].paid = 100 /\ req[t].total = 250
        /\ db.sales[res[t].ref].paid = 250

PointsOf(cs, shop, phone) ==
    LET found == FindCustomer(cs, shop, phone)
    IN  IF found = {} THEN 0 ELSE (CHOOSE c \in found : TRUE).points

\* C3: after a committed sale with a customer, the customer's points are
\* max(0, points before - redeemed_points) + earned_points of the sale.
C3_PointsAfterSale ==
    \A t \in Procs :
        (SaleCommitted(t) /\ req[t].cust.phone # "") =>
            PointsOf(db.customers, req[t].shop, req[t].cust.phone)
              = Max(0, PointsOf(pre[t].customers, req[t].shop, req[t].cust.phone)
                       - req[t].redeemed)
                + db.sales[res[t].ref].earned

RECURSIVE Deducted(_, _)
Deducted(items, p) ==
    IF items = <<>> THEN 0
    ELSE (IF Head(items).product = p THEN IntTrunc(Head(items).qty) ELSE 0)
         + Deducted(Tail(items), p)

\* C5: createSale is all-or-nothing.  While a call runs and after a rejected
\* call the committed tables (stock, sales, sale items, customers) are those
\* from before the call; after a committed call the Sale row, its items and
\* every stock decrement are there together.
C5_SaleAllOrNothing ==
    \A t \in Procs :
        /\ SaleRunning(t) => db = pre[t]
        /\ SaleRejected(t) => db = pre[t]
        /\ SaleCommitted(t) =>
              /\ Len(db.sales) = Len(pre[t].sales) + 1
              /\ db.sales[res[t].ref].id = res[t].ref
              /\ Len(db.saleItems) = Len(pre[t].saleItems) + Len(req[t].items)
              /\ \A i \in 1..Len(req[t].items) :
                    db.saleItems[Len(pre[t].saleItems) + i].sale = res[t].ref
              /\ \A p \in Products :
                    db.stock[p] = pre[t].stock[p] - Deducted(req[t].items, p)

\* a call that fails after the customer and the Sale rows were written
C5_Witness ==
    \E t \in Procs :
        /\ SaleRejected(t)
        /\ res[t].kind = "stock_out_of_range"
        /\ req[t].cust.phone = "p2"
        /\ db = pre[t]

\* C14: a createSale with payment method "due" that names no customer, or
\* whose paid_amount is greater than its total, is rejected and leaves the
\* tables as they were (no Sale, no SaleItem, no stock change, no customer or
\* points change); when the call gets as far as the payment validation the
\* rejection is OverpaidError for paid_amount > total and CustomerRequired
\* otherwise.
C14_DuePolicyRejected ==
    \A t \in Procs :
        (/\ SaleDone(t)
         /\ req[t].method = "due"
         /\ (req[t].cust.phone = "" \/ req[t].paid > req[t].total)) =>
            /\ res[t].status # "201"
            /\ db = pre[t]
            /\ res[t].kind \notin {"invalid", "product_not_found", "insufficient_stock"} =>
                  res[t].kind = IF req[t].paid > req[t].total
                                THEN "overpaid" ELSE "customer_required"

\* a due sale without a customer, refused after its stock check passed
C14_Witness ==
    \E t \in Procs :
        /\ SaleRejected(t)
        /\ req[t].method = "due" /\ req[t].cust = NoCust
        /\ req[t].paid = 100 /\ req[t].total = 250
        /\ res[t].kind = "customer_required"
        /\ db = pre[t] /\ db.sales = <<>> /\ db.saleItems = <<>>

\* floor(a / b) for b > 0
Floor(a, b) == a \div b

\* C15: every persisted Sale has earned_points = floor(total / 100).
C15_EarnedPoints ==
    \A i \in 1..Len(db.sales) : db.sales[i].earned = Floor(db.sales[i].total, 100)

\* sum of the quantities on the SaleItems of one sale for one product
RECURSIVE RecordedQty(_, _, _)
RecordedQty(rows, sale, p) ==
    IF rows = <<>> THEN 0
    ELSE (IF Head(rows).sale = sale /\ Head(rows).product = p THEN Head(rows).qty ELSE 0)
         + RecordedQty(Tail(rows), sale, p)

\* C16: after a committed createSale, for every product, the stock before the
\* sale minus the stock after it is the sum of the quantities recorded on
\* that sale's SaleItems for the product, fractional quantities included.
C16_StockDropsByRecordedQuantity ==
    \A t \in Procs :
        SaleCommitted(t) =>
            \A p \in Products :
                pre[t].stock[p] - db.stock[p] = RecordedQty(db.saleItems, res[t].ref, p)

\* C17: every persisted Sale has subtotal = the sum of its items' totals and
\* total = subtotal - discount + VAT amount, whatever amounts the caller sent.
C17_SaleTotals ==
    \A k \in 1..Len(db.sales) :
        LET h == db.sales[k]
            its == SelectSeq(db.saleItems, LAMBDA it : it.sale = h.id)
        IN  /\ h.subtotal = SumSeq([i \in 1..Len(its) |-> its[i].total])
            /\ h.total = h.subtotal - h.discount + h.vat

\* sum of the quantities on the SaleItems of one sale that name a variant
RECURSIVE RecordedVariantQty(_, _, _)
RecordedVariantQty(rows, sale, v) ==
    IF rows = <<>> THEN 0
    ELSE (IF Head(rows).sale = sale /\ Head(rows).variant = v THEN Head(rows).qty ELSE 0)
         + RecordedVariantQty(Tail(rows), sale, v)

\* C21: a committed createSale lowers the stock of every variant its items
\* name by the quantity of those items: the variant's own stock, the one a
\* purchase line for the variant raises.
C21_VariantStockDecremented ==
    \A t \in Procs :
        SaleCommitted(t) =>
            \A v \in Variants :
                db.vstock[v] = pre[t].vstock[v] - RecordedVariantQty(db.saleItems, res[t].ref, v)

\* C27: no createSale, accepted or rejected, raises a product's stock: when
\* the call is over the stock of every product is at most what it was before
\* the call, for every quantity the input validation lets through.
C27_SaleNeverRaisesStock ==
    \A t \in Procs :
        (pc[t] = "done" /\ req[t].op = "sale") =>
            \A p \in Products : db.stock[p] <= pre[t].stock[p]

PurchaseDone(t) == pc[t] = "done" /\ req[t].op = "purchase"
PurchaseCommitted(t) == PurchaseDone(t) /\ res[t].status = "201"
PurchaseRejected(t) == PurchaseDone(t) /\ res[t].status # "201"
PurchaseRunning(t) == req[t].op = "purchase" /\ pc[t] = "pline"

RECURSIVE Purchased(_, _)
Purchased(lines, row) ==
    IF lines = <<>> THEN 0
    ELSE (IF LineTarget(Head(lines)) = row THEN TotalBaseQty(Head(lines)) ELSE 0)
         + Purchased(Tail(lines), row)

StockOf(d, row) == IF row[1] = "variant" THEN d.vstock[row[2]] ELSE d.stock[row[2]]

\* C1: after a committed createPurchase the stock of every product and
\* variant is its stock before the call plus the total_base_qty of all lines
\* of that purchase that target it, also when several lines target it.
C1_StockAfterPurchase ==
    \A t \in Procs :
        PurchaseCommitted(t) =>
            \A row \in Rows :
                StockOf(db, row) = StockOf(pre[t], row) + Purchased(req[t].lines, row)

LinesOn(lines, row) == {i \in 1..Len(lines) : LineTarget(lines[i]) = row}

\* C6: createPurchase is all-or-nothing.  While a call runs and after a
\* failed call the committed tables are those from before the call; after a
\* committed call the header, one PurchaseItem per line, the StockLedger rows
\* of the batch lines and the stock increases are there together.
C6_PurchaseAllOrNothing ==
    \A t \in Procs :
        /\ PurchaseRunning(t) => db = pre[t]
        /\ PurchaseRejected(t) => db = pre[t]
        /\ PurchaseCommitted(t) =>
              LET lines == req[t].lines
                  n0 == Len(pre[t].purchaseItems)
              IN  /\ Len(db.purchases) = Len(pre[t].purchases) + 1
                  /\ db.purchases[res[t].ref].id = res[t].ref
                  /\ Len(db.purchaseItems) = n0 + Len(lines)
                  /\ \A i \in 1..Len(lines) :
                        /\ db.purchaseItems[n0 + i].purchase = res[t].ref
                        /\ db.purchaseItems[n0 + i].total_base_qty = TotalBaseQty(lines[i])
                  /\ Len(db.ledger) = Len(pre[t].ledger)
                        + Cardinality({i \in 1..Len(lines) : LedgerNeeded(lines[i])})
                  /\ \A row \in Rows :
                        Cardinality(LinesOn(lines, row)) = 1 =>
                            StockOf(db, row) = StockOf(pre[t], row) + Purchased(lines, row)

\* a call that fails at its second line, after the first line raised a stock
C6_Witness ==
    \E t \in Procs :
        /\ PurchaseRejected(t)
        /\ res[t].kind = "stock_out_of_range" /\ res[t].ref = 2
        /\ LineTarget(req[t].lines[1]) # NoRow
        /\ LedgerNeeded(req[t].lines[1])
        /\ db = pre[t]

\* C9: after a committed createPurchase every line with a batch number has
\* exactly one StockLedger row of type "purchase" that references its
\* PurchaseItem, with quantity = remaining_qty = total_base_qty and the line's
\* batch_no and expiry_date; a line without a batch number has none.
C9_LedgerPerBatchLine ==
    \A t \in Procs :
        PurchaseCommitted(t) =>
            \A i \in 1..Len(req[t].lines) :
                LET line == req[t].lines[i]
                    item == Len(pre[t].purchaseItems) + i
                    rows == {j \in 1..Len(db.ledger) : db.ledger[j].purchase_item = item}
                IN  IF line.batch # ""
                    THEN /\ Cardinality(rows) = 1
                         /\ \A j \in rows :
                               /\ db.ledger[j].type = "purchase"
                               /\ db.ledger[j].quantity = TotalBaseQty(line)
                               /\ db.ledger[j].remaining = TotalBaseQty(line)
                               /\ db.ledger[j].batch = line.batch
                               /\ db.ledger[j].expiry = line.expiry
                    ELSE rows = {}

\* C10: every committed Purchase has subtotal = sum over its lines of
\* price_per_pack x qty_packs, total = subtotal - discount and
\* due_amount = total - paid_amount.
C10_PurchaseTotals ==
    \A k \in 1..Len(db.purchases) :
        LET h == db.purchases[k]
            its == SelectSeq(db.purchaseItems, LAMBDA it : it.purchase = h.id)
        IN  /\ h.subtotal = SumSeq([i \in 1..Len(its) |-> its[i].price * its[i].qty_packs])
            /\ h.total = h.subtotal - h.discount
            /\ h.due = h.total - h.paid

\* a two-line purchase with a discount and a payment at purchase time
C10_Witness ==
    \E t \in Procs :
        /\ PurchaseCommitted(t)
        /\ Len(req[t].lines) = 2 /\ req[t].discount = 5 /\ req[t].paid = 10
        /\ db.purchases[res[t].ref].subtotal = 17
        /\ db.purchases[res[t].ref].due = 2

\* ---------------------------------------------------------------- claims on purchase lines
\* the inputs the unit conversion is specified for
ConversionInput(it) == it.pack_size > 0 /\ it.qty_packs >= 0 /\ it.price >= 0

\* C11: every persisted PurchaseItem with pack_size > 0, qty_packs >= 0 and
\* price_per_pack >= 0 has total_base_qty = pack_size x qty_packs,
\* total = price_per_pack x qty_packs, and cost_per_base_unit = price_per_pack
\* / pack_size at the four decimal places of its column: the stored value is
\* within half a unit of the last place of the quotient, and is the quotient
\* itself whenever that has at most four decimal places.
C11_UnitConversion ==
    \A k \in 1..Len(db.purchaseItems) :
        LET it == db.purchaseItems[k]
            err == it.cost * it.pack_size - it.price * CostScale
        IN  ConversionInput(it) =>
               /\ it.total_base_qty = Whole(it.pack_size * it.qty_packs)
               /\ it.total = it.price * it.qty_packs
               /\ 2 * err <= it.pack_size /\ -2 * err <= it.pack_size
               /\ (it.price * CostScale) % it.pack_size = 0 => err = 0

\* a stored line of 1 pack of 3 at 20 (cost 6.6667) next to one of 1 pack of 2
\* at 10 (cost 5.0000)
C11_Witness ==
    \E j \in 1..Len(db.purchaseItems), k \in 1..Len(db.purchaseItems) :
        /\ db.purchaseItems[j].pack_size = 3 /\ db.purchaseItems[j].price = 20
        /\ db.purchaseItems[j].cost = 66667
        /\ db.purchaseItems[j].total_base_qty = Whole(3)
        /\ db.purchaseItems[k].pack_size = 2 /\ db.purchaseItems[k].price = 10
        /\ db.purchaseItems[k].cost = 50000 /\ db.purchaseItems[k].total = 10

InvalidQuantity(line) == line.qty_packs < 0 \/ line.pack_size <= 0

\* C12: a createPurchase with a line that has qty_packs < 0 or pack_size <= 0
\* is rejected with InvalidQuantity and leaves the tables as they were: no
\* stock change, no Purchase, PurchaseItem or StockLedger row.
C12_InvalidQuantityRejected ==
    \A t \in Procs :
        (PurchaseDone(t) /\ \E i \in 1..Len(req[t].lines) : InvalidQuantity(req[t].lines[i])) =>
            /\ res[t].status # "201"
            /\ res[t].kind = "invalid_quantity"
            /\ db = pre[t]

\* ledger rows that name a stocked row
LedgerRowsOf(rows, row) ==
    {j \in 1..Len(rows) :
        IF row[1] = "variant" THEN rows[j].variant = row[2]
        ELSE rows[j].variant = NoId /\ rows[j].product = row[2]}

ForeignLine(shop, line) == LineTarget(line) # NoRow /\ OwnerShop(LineTarget(line)) # shop

\* C13: a createPurchase of one shop with a line that names a product or
\* variant of another shop is rejected with TenantMismatch, and no
\* createPurchase changes the stock of, or adds a StockLedger row for, a
\* product or variant of a shop other than the caller's.
C13_PurchaseTenantIsolation ==
    \A t \in Procs :
        PurchaseDone(t) =>
            /\ (\E i \in 1..Len(req[t].lines) : ForeignLine(req[t].shop, req[t].lines[i])) =>
                   (res[t].status # "201" /\ res[t].kind = "tenant_mismatch")
            /\ \A row \in Rows :
                   OwnerShop(row) # req[t].shop =>
                       /\ StockOf(db, row) = StockOf(pre[t], row)
                       /\ LedgerRowsOf(db.ledger, row) = LedgerRowsOf(pre[t].ledger, row)

\* C18: every persisted PurchaseItem references exactly one stocked target, a
\* product or a variant and never neither, and a createPurchase with a line
\* that resolves to no stocked target is rejected with TargetNotFound and
\* leaves the tables as they were.
C18_ExactlyOneTarget ==
    /\ \A k \in 1..Len(db.purchaseItems) :
          (db.purchaseItems[k].product # NoId) # (db.purchaseItems[k].variant # NoId)
    /\ \A t \in Procs :
          (PurchaseDone(t) /\ \E i \in 1..Len(req[t].lines) : LineTarget(req[t].lines[i]) = NoRow) =>
              /\ res[t].status # "201"
              /\ res[t].kind = "target_not_found"
              /\ db = pre[t]

\* ---------------------------------------------------------------- claims on concurrent sales
RECURSIVE SoldOf(_, _)
SoldOf(rows, p) ==
    IF rows = <<>> THEN 0
    ELSE (IF Head(rows).product = p THEN IntTrunc(Head(rows).qty) ELSE 0)
         + SoldOf(Tail(rows), p)

\* C4: concurrent sales against the same product.  The stock is never
\* negative; every call ends committed or with InsufficientStock; a call is
\* refused only when the committed stock it holds is below what it asks for;
\* and the stock always goes down by exactly what the committed sales sold,
\* so the sales that commit never take more than was available.
C4_ContentionNeverNegative ==
    /\ [](\A p \in Products : db.stock[p] >= 0)
    /\ [](\A t \in Procs : SaleDone(t) => res[t].kind \in {"sale", "insufficient_stock"})
    /\ [][ /\ \A p \in Products :
                db.stock'[p] + SoldOf(db.saleItems', p) = db.stock[p] + SoldOf(db.saleItems, p)
           /\ \A t \in Procs :
                (pc[t] = "lock" /\ pc'[t] = "done") =>
                    /\ res'[t].kind = "insufficient_stock"
                    /\ res'[t].avail = db.stock[res'[t].ref]
                    /\ \E i \in 1..Len(req[t].items) :
                          /\ req[t].items[i].product = res'[t].ref
                          /\ db.stock[res'[t].ref] < IntTrunc(req[t].items[i].qty)
         ]_vars

\* stock 2: a sale of 2 committed, the other call asked for 1 and was refused
\* with available 0
C4_Witness ==
    \E t \in Procs, u \in Procs :
        /\ t # u
        /\ SaleCommitted(t) /\ req[t].items = <<[product |-> 1, variant |-> NoId, qty |-> Whole(2), total |-> 250]>>
        /\ SaleRejected(u) /\ req[u].items = <<[product |-> 1, variant |-> NoId, qty |-> Whole(1), total |-> 250]>>
        /\ res[u].kind = "insufficient_stock" /\ res[u].avail = 0
        /\ pre[u].stock[1] = Whole(2)
        /\ db.stock[1] = 0

C19_StockNeverNegative ==
    \A p \in Products : db.stock[p] >= 0

\* sum of the StockLedger quantities of a stocked row
LedgerSum(rows, row) ==
    LET js == LedgerRowsOf(rows, row)
        RECURSIVE Sum(_)
        Sum(S) == IF S = {} THEN 0
                  ELSE LET j == CHOOSE x \in S : TRUE
                       IN  rows[j].quantity + Sum(S \ {j})
    IN  Sum(js)

\* C20: every change of a product's or variant's stock, by a purchase or by
\* a sale, comes with StockLedger rows of the same signed quantity for that
\* target, so the sum of a target's ledger quantities follows its stock.
C20_LedgerFollowsStock ==
    [][ \A row \in Rows :
          StockOf(db', row) - StockOf(db, row)
            = LedgerSum(db'.ledger, row) - LedgerSum(db.ledger, row) ]_vars

\* ---------------------------------------------------------------- claims on ledger rows over time
\* C22: a StockLedger row and a CashTransaction row, once created, is never
\* modified or deleted, whatever operation follows, deletion of the purchase
\* it refers to included: both tables only grow.
C22_LedgersAppendOnly ==
    [][ /\ Len(db'.ledger) >= Len(db.ledger)
        /\ \A j \in 1..Len(db.ledger) : db'.ledger[j] = db.ledger[j]
        /\ Len(db'.cash) >= Len(db.cash)
        /\ \A j \in 1..Len(db.cash) : db'.cash[j] = db.cash[j] ]_vars

\* base quantity bought for a stocked row over all stored PurchaseItems
RECURSIVE BoughtOf(_, _)
BoughtOf(rows, row) ==
    IF rows = <<>> THEN 0
    ELSE (IF LineTarget(Head(rows)) = row THEN Head(rows).total_base_qty ELSE 0)
         + BoughtOf(Tail(rows), row)

\* C24: whatever the interleaving of createPurchase and createSale calls on
\* one product, no update is lost: every step changes a product's stock by
\* exactly the base quantity of the purchase lines it commits minus the
\* quantity of the sale items it commits, so the final stock is the initial
\* stock plus everything bought minus everything sold.
C24_NoLostStockUpdate ==
    [][ \A p \in Products :
          db'.stock[p] - db.stock[p]
            = (BoughtOf(db'.purchaseItems, PRow(p)) - BoughtOf(db.purchaseItems, PRow(p)))
              - (SoldOf(db'.saleItems, p) - SoldOf(db.saleItems, p)) ]_vars

\* ---------------------------------------------------------------- claims on dues
\* sum of the due_amount stored on a supplier's purchases
SupplierStoredDue(d, s) ==
    SumSeq([k \in 1..Len(d.purchases) |->
              IF k \in PurchasesOf(d, s) THEN d.purchases[k].due ELSE 0])

\* C28: the total_due reported for a supplier, by the supplier serializer and
\* by the supplier ledger, is the sum of the due_amount (total - paid_amount)
\* of the supplier's purchases minus the sum of its SupplierPayment amounts:
\* what was paid at purchase time counts as paid.
C28_SupplierTotalDue ==
    \A s \in Suppliers :
        /\ get_total_due(db, s) = SupplierStoredDue(db, s) - get_total_paid(db, s)
        /\ SupplierLedgerTotalDue(db, s) = SupplierStoredDue(db, s) - get_total_paid(db, s)

\* sum of the due_amount stored on a customer's sales
CustomerStoredDue(d, c) ==
    SumSeq([k \in 1..Len(d.sales) |-> IF d.sales[k].customer = c THEN d.sales[k].due ELSE 0])

\* C29: the total_due of a customer's ledger (sale totals minus the
\* paid_amount of the sales minus the CustomerPayment amounts), in both
\* ledger views, is the sum of the due_amount stored on the customer's sales
\* minus the sum of the customer's CustomerPayment amounts.
C29_CustomerTotalDue ==
    \A c \in CustomerKeys(db) :
        /\ CustomerLedgerTotalDue(db, c) = CustomerStoredDue(db, c) - total_repaid(db, c)
        /\ CustomerLedgerDetailTotalDue(db, c) = CustomerStoredDue(db, c) - total_repaid(db, c)

\* a customer with a sale on credit, part of it paid at the sale, and a
\* payment recorded afterwards
C29_Witness ==
    \E c \in CustomerKeys(db) :
        /\ \E k \in 1..Len(db.sales) :
              /\ db.sales[k].customer = c /\ db.sales[k].method = "due"
              /\ db.sales[k].paid > 0 /\ db.sales[k].due > 0
        /\ total_repaid(db, c) > 0

RepayDone(t) == pc[t] = "done" /\ req[t].op = "repay"

\* C30: repay never lets a customer overpay: a repay whose amount is <= 0
\* is answered 400 and records nothing, and in every state reached by repay
\* calls, one after another or overlapping, the sum of a customer's payments
\* is at most the sum of total - paid_amount over the customer's sales.
C30_RepayNeverOverpays ==
    /\ \A t \in Procs : (RepayDone(t) /\ req[t].amount <= 0) => res[t].status # "200"
    /\ \A c \in CustomerKeys(db) :
          total_repaid(db, c) <= total_sales(db, c) - total_paid_in_sale(db, c)

\* ---------------------------------------------------------------- claims on the middleware
RequestDone(t) == pc[t] = "done" /\ req[t].op = "request"

\* the request is for a protected path and comes from a user with a profile
Protected(q) == q.path \in {"check_shop_status", "api"} /\ q.auth = "user"

\* the shop is inactive, is a trial past its expire_date, or is on a paid
\* plan past its expire_date
MustPay(shop) == ~shop.is_active \/ shop.expire = "past"

C8_CurrentBalance ==
    /\ [](\A s \in Shops :
            (\A i \in 1..Len(db.cash) : db.cash[i].shop # s) =>
                get_current_balance(db.cash, s) = 0)
    /\ [][ Len(db.cash') = Len(db.cash) + 1 =>
             LET e == db.cash'[Len(db.cash')]
             IN  \A s \in Shops :
                    get_current_balance(db.cash', s)
                      = get_current_balance(db.cash, s)
                        + (IF e.shop # s THEN 0
                           ELSE IF e.type = "credit" THEN e.amount ELSE 0 - e.amount)
         ]_vars

\* credit 500 then debit 120 gives 380, next to an entry of another tenant
C8_Witness ==
    /\ Len(db.cash) = 3
    /\ db.cash[1] = [shop |-> 1, type |-> "credit", amount |-> 500,
                     is_manual |-> TRUE, running_balance |-> 500]
    /\ db.cash[2].shop = 2 /\ db.cash[2].type = "credit"
    /\ db.cash[3].shop = 1 /\ db.cash[3].type = "debit" /\ db.cash[3].amount = 120
    /\ get_current_balance(db.cash, 1) = 380

====
